---------------------------- MODULE Spec2Model ----------------------------
(* solaudit: the pattern catalog, the scan engine (analyzeContract,        *)
(* analyzeGas) and the aggregator (auditFiles) of src/src/auditor.ts, with *)
(* the audit command of src/src/cli.ts as their caller.                    *)
(*                                                                         *)
(* Source text is a sequence of one-character strings.  Offsets (match     *)
(* index, lastIndex) are 0-based as in JavaScript: offset i stands before  *)
(* character s[i+1].                                                       *)
EXTENDS Integers, Sequences, FiniteSets, TLC

(***************************************************************************)
(* Character classes of ECMAScript regular expressions.                    *)
(***************************************************************************)
\* \s (the white space and line terminators a source file is written with)
WhiteSpace == {" ", "\t", "\n", "\r", "\f"}

\* the characters `.` does not match
LineTerminator == {"\n", "\r"}

\* \w
WordChar ==
  {"a","b","c","d","e","f","g","h","i","j","k","l","m","n","o","p","q","r",
   "s","t","u","v","w","x","y","z",
   "A","B","C","D","E","F","G","H","I","J","K","L","M","N","O","P","Q","R",
   "S","T","U","V","W","X","Y","Z",
   "0","1","2","3","4","5","6","7","8","9","_"}

(***************************************************************************)
(* Regular-expression terms.                                               *)
(***************************************************************************)
Lit(str)    == [t |-> "lit", s |-> str]
In(set)     == [t |-> "in", set |-> set]
NotIn(set)  == [t |-> "notin", set |-> set]
Cat(rs)     == [t |-> "cat", rs |-> rs]
Alt(rs)     == [t |-> "alt", rs |-> rs]
Star(r)     == [t |-> "rep", r |-> r, min |-> 0]
Plus(r)     == [t |-> "rep", r |-> r, min |-> 1]
Opt(r)      == [t |-> "opt", r |-> r]
Group(k, r) == [t |-> "grp", k |-> k, r |-> r]
BackRef(k)  == [t |-> "ref", k |-> k]
Ahead(r)    == [t |-> "la", r |-> r]
NotAhead(r) == [t |-> "nla", r |-> r]
NotBehind(set) == [t |-> "nlb", set |-> set]
WordBoundary == [t |-> "wb"]

Sp   == In(WhiteSpace)
W    == In(WordChar)
Dot  == NotIn(LineTerminator)

\* capture groups 1 and 2, unset
NoCaptures == <<<<0, 0>>, <<0, 0>>>>

(***************************************************************************)
(* Backtracking matcher.  Match(r, s, i, c) is the sequence of the ways r  *)
(* matches s at offset i with captures c, in the order a backtracking      *)
(* engine tries them (alternatives left to right, quantifiers greedy);     *)
(* each way is [e |-> end offset, c |-> captures].  The engine's match is  *)
(* the first of them.                                                      *)
(***************************************************************************)
RECURSIVE Match(_, _, _, _)
RECURSIVE MatchCat(_, _, _, _, _)
RECURSIVE MatchCatOver(_, _, _, _, _)
RECURSIVE MatchAlt(_, _, _, _, _)

LitAt(str, s, i) ==
  /\ i + Len(str) <= Len(s)
  /\ \A k \in 1..Len(str) : s[i + k] = str[k]

InClass(r, ch) == IF r.t = "in" THEN ch \in r.set ELSE ch \notin r.set

\* the number of consecutive characters of class r from offset i on
RECURSIVE RunLength(_, _, _)
RunLength(r, s, i) ==
  IF i < Len(s) /\ InClass(r, s[i + 1]) THEN 1 + RunLength(r, s, i + 1) ELSE 0

\* r* and r+ for a character class r, greedy: the longest run first, then
\* one character less at a time down to min
MatchRep(r, min, s, i, c) ==
  LET n == RunLength(r, s, i)
  IN [j \in 1..(n - min + 1) |-> [e |-> i + n - j + 1, c |-> c]]

IsWordAt(s, k) == k >= 1 /\ k <= Len(s) /\ s[k] \in WordChar

SetCapture(xs, k, i) ==
  [j \in 1..Len(xs) |-> [e |-> xs[j].e, c |-> [xs[j].c EXCEPT ![k] = <<i, xs[j].e>>]]]

Match(r, s, i, c) ==
  LET here == <<[e |-> i, c |-> c]>> IN
  CASE r.t = "lit" -> IF LitAt(r.s, s, i) THEN <<[e |-> i + Len(r.s), c |-> c]>> ELSE <<>>
    [] r.t = "cat" -> MatchCat(r.rs, 1, s, i, c)
    [] r.t \in {"in", "notin"} ->
         IF i < Len(s) /\ InClass(r, s[i + 1]) THEN <<[e |-> i + 1, c |-> c]>> ELSE <<>>
    [] r.t = "alt" -> MatchAlt(r.rs, 1, s, i, c)
    [] r.t = "rep" -> MatchRep(r.r, r.min, s, i, c)
    [] r.t = "opt" -> Match(r.r, s, i, c) \o here
    [] r.t = "grp" -> SetCapture(Match(r.r, s, i, c), r.k, i)
    [] r.t = "ref" -> LET b == c[r.k][1]
                          n == c[r.k][2] - c[r.k][1]
                      IN IF i + n <= Len(s) /\ \A k \in 1..n : s[i + k] = s[b + k]
                         THEN <<[e |-> i + n, c |-> c]>> ELSE <<>>
    [] r.t = "la" -> IF Match(r.r, s, i, c) # <<>> THEN here ELSE <<>>
    [] r.t = "nla" -> IF Match(r.r, s, i, c) = <<>> THEN here ELSE <<>>
    [] r.t = "nlb" -> IF i >= 1 /\ s[i] \in r.set THEN <<>> ELSE here
    [] r.t = "wb" -> IF IsWordAt(s, i) # IsWordAt(s, i + 1) THEN here ELSE <<>>

MatchCat(rs, n, s, i, c) ==
  IF n > Len(rs) THEN <<[e |-> i, c |-> c]>>
  ELSE MatchCatOver(Match(rs[n], s, i, c), 1, rs, n + 1, s)

MatchCatOver(xs, k, rs, n, s) ==
  IF k > Len(xs) THEN <<>>
  ELSE MatchCat(rs, n, s, xs[k].e, xs[k].c) \o MatchCatOver(xs, k + 1, rs, n, s)

MatchAlt(rs, n, s, i, c) ==
  IF n > Len(rs) THEN <<>>
  ELSE Match(rs[n], s, i, c) \o MatchAlt(rs, n + 1, s, i, c)

(***************************************************************************)
(* RegExp.prototype.exec / test of a global (g) regular expression: the    *)
(* search starts at lastIndex and tries every offset up to the end of the  *)
(* text; a match leaves lastIndex at its end, a failure resets it to 0.    *)
(***************************************************************************)
NoMatch == [found |-> FALSE, index |-> 0, lastIndex |-> 0]

RECURSIVE SearchFrom(_, _, _)
SearchFrom(r, s, i) ==
  IF i > Len(s) THEN NoMatch
  ELSE LET ways == Match(r, s, i, NoCaptures)
       IN IF ways # <<>>
          THEN [found |-> TRUE, index |-> i, lastIndex |-> ways[1].e]
          ELSE SearchFrom(r, s, i + 1)

(***************************************************************************)
(* The pattern catalog.                                                    *)
(***************************************************************************)
VULNERABILITY_PATTERNS == <<
  [name |-> "Reentrancy", category |-> "security", severity |-> "critical",
   description |-> "External call before state update may allow reentrancy",
   recommendation |-> "Use checks-effects-interactions pattern or ReentrancyGuard",
   pattern |-> Alt(<<
     Cat(<<Lit(<<".", "c", "a", "l", "l", "{">>), Star(Dot), Lit(<<"v", "a", "l", "u", "e">>), Star(Dot), Lit(<<"}">>),
           Star(Sp), Lit(<<"(">>)>>),
     Cat(<<Lit(<<".", "c", "a", "l", "l", ".", "v", "a", "l", "u", "e">>), Star(Sp), Lit(<<"(">>)>>)>>)],
  [name |-> "Unchecked Return Value", category |-> "security", severity |-> "high",
   description |-> "Return value of low-level call not checked",
   recommendation |-> "Check return value: require(success, \"Call failed\")",
   pattern |-> Cat(<<Lit(<<".">>),
     Alt(<<Lit(<<"c", "a", "l", "l">>), Lit(<<"s", "e", "n", "d">>), Lit(<<"t", "r", "a", "n", "s", "f", "e", "r">>)>>),
     Star(Sp), Lit(<<"(">>), Star(NotIn({")"})), Lit(<<")">>), Star(Sp), Lit(<<";">>),
     NotAhead(Cat(<<Star(Sp), Lit(<<"r", "e", "q", "u", "i", "r", "e">>)>>))>>)],
  [name |-> "tx.origin Authentication", category |-> "security", severity |-> "high",
   description |-> "Using tx.origin for authentication is vulnerable to phishing",
   recommendation |-> "Use msg.sender instead of tx.origin",
   pattern |-> Alt(<<
     Cat(<<Lit(<<"t", "x", ".", "o", "r", "i", "g", "i", "n">>), Star(Sp), Lit(<<"=", "=">>)>>),
     Cat(<<Lit(<<"r", "e", "q", "u", "i", "r", "e">>), Star(Sp), Lit(<<"(">>), Star(Sp), Lit(<<"t", "x", ".", "o", "r", "i", "g", "i", "n">>)>>)>>)],
  [name |-> "Floating Pragma", category |-> "best-practice", severity |-> "low",
   description |-> "Using floating pragma allows different compiler versions",
   recommendation |-> "Lock pragma to specific version: pragma solidity 0.8.20;",
   pattern |-> Cat(<<Lit(<<"p", "r", "a", "g", "m", "a">>), Plus(Sp), Lit(<<"s", "o", "l", "i", "d", "i", "t", "y">>), Star(Sp), Lit(<<"^">>)>>)],
  [name |-> "Unprotected Selfdestruct", category |-> "security", severity |-> "critical",
   description |-> "selfdestruct can be called, potentially destroying contract",
   recommendation |-> "Add access control or remove selfdestruct",
   pattern |-> Alt(<<
     Cat(<<Lit(<<"s", "e", "l", "f", "d", "e", "s", "t", "r", "u", "c", "t">>), Star(Sp), Lit(<<"(">>)>>),
     Cat(<<Lit(<<"s", "u", "i", "c", "i", "d", "e">>), Star(Sp), Lit(<<"(">>)>>)>>)],
  [name |-> "Potential Integer Overflow", category |-> "security", severity |-> "high",
   description |-> "Solidity < 0.8 requires SafeMath for overflow protection",
   recommendation |-> "Upgrade to Solidity 0.8+ or use SafeMath",
   pattern |-> Cat(<<Lit(<<"p", "r", "a", "g", "m", "a">>), Plus(Sp), Lit(<<"s", "o", "l", "i", "d", "i", "t", "y">>), Star(Sp),
     Opt(In({"^", "~"})), Lit(<<"0", ".">>), In({"0","1","2","3","4","5","6","7"}),
     Lit(<<".">>)>>)],
  [name |-> "Dangerous Delegatecall", category |-> "security", severity |-> "critical",
   description |-> "Delegatecall can execute arbitrary code in caller context",
   recommendation |-> "Validate target address, avoid user-controlled delegatecall",
   pattern |-> Cat(<<Lit(<<"d", "e", "l", "e", "g", "a", "t", "e", "c", "a", "l", "l">>), Star(Sp), Lit(<<"(">>)>>)],
  [name |-> "Timestamp Dependence", category |-> "security", severity |-> "medium",
   description |-> "block.timestamp can be manipulated by miners",
   recommendation |-> "Avoid using for critical logic, use block.number for intervals",
   pattern |-> Alt(<<Lit(<<"b", "l", "o", "c", "k", ".", "t", "i", "m", "e", "s", "t", "a", "m", "p">>), Lit(<<"n", "o", "w">>)>>)],
  [name |-> "Weak Randomness", category |-> "security", severity |-> "high",
   description |-> "Block variables are predictable, not suitable for randomness",
   recommendation |-> "Use Chainlink VRF or commit-reveal scheme",
   pattern |-> Cat(<<Lit(<<"k", "e", "c", "c", "a", "k", "2", "5", "6">>), Star(Sp), Lit(<<"(">>), Star(NotIn({")"})),
     Lit(<<"b", "l", "o", "c", "k", ".">>),
     Alt(<<Lit(<<"t", "i", "m", "e", "s", "t", "a", "m", "p">>), Lit(<<"n", "u", "m", "b", "e", "r">>), Lit(<<"d", "i", "f", "f", "i", "c", "u", "l", "t", "y">>),
           Lit(<<"p", "r", "e", "v", "r", "a", "n", "d", "a", "o">>)>>)>>)],
  [name |-> "Missing Zero Address Check", category |-> "best-practice", severity |-> "medium",
   description |-> "Address parameters not validated for zero address",
   recommendation |-> "Add require(addr != address(0), \"Zero address\")",
   pattern |-> Cat(<<Lit(<<"f", "u", "n", "c", "t", "i", "o", "n">>), Plus(Sp), Plus(W), Star(Sp), Lit(<<"(">>),
     Star(NotIn({")"})), Lit(<<"a", "d", "d", "r", "e", "s", "s">>), Plus(Sp), Plus(W), Star(NotIn({")"})),
     Lit(<<")">>), Star(Sp), Alt(<<Lit(<<"p", "u", "b", "l", "i", "c">>), Lit(<<"e", "x", "t", "e", "r", "n", "a", "l">>)>>),
     Star(NotIn({"{"})), Lit(<<"{">>),
     NotAhead(Cat(<<Star(NotIn({"}"})), Lit(<<"r", "e", "q", "u", "i", "r", "e">>), Star(Sp), Lit(<<"(">>),
       Star(NotIn({")"})), Lit(<<"!", "=">>), Star(Sp), Lit(<<"a", "d", "d", "r", "e", "s", "s", "(", "0", ")">>)>>))>>)],
  [name |-> "Inline Assembly", category |-> "security", severity |-> "medium",
   description |-> "Inline assembly bypasses Solidity safety checks",
   recommendation |-> "Document thoroughly and review carefully",
   pattern |-> Cat(<<Lit(<<"a", "s", "s", "e", "m", "b", "l", "y">>), Star(Sp), Lit(<<"{">>)>>)],
  [name |-> "Force Send Ether", category |-> "security", severity |-> "medium",
   description |-> "Contract balance can be manipulated via selfdestruct",
   recommendation |-> "Track deposits with internal accounting",
   pattern |-> Alt(<<Lit(<<"t", "h", "i", "s", ".", "b", "a", "l", "a", "n", "c", "e">>), Lit(<<"a", "d", "d", "r", "e", "s", "s", "(", "t", "h", "i", "s", ")", ".", "b", "a", "l", "a", "n", "c", "e">>)>>)],
  [name |-> "Private State Variable", category |-> "best-practice", severity |-> "low",
   description |-> "Private variables are still readable on-chain",
   recommendation |-> "Never store secrets in contract storage",
   pattern |-> Cat(<<Lit(<<"p", "r", "i", "v", "a", "t", "e">>), Plus(Sp), Plus(W), Plus(Sp), Plus(W),
     Star(Sp), Lit(<<"=">>)>>)],
  [name |-> "Missing Event Emission", category |-> "best-practice", severity |-> "low",
   description |-> "State changes should emit events for off-chain tracking",
   recommendation |-> "Add event emissions for important state changes",
   pattern |-> Cat(<<Lit(<<"f", "u", "n", "c", "t", "i", "o", "n">>), Plus(Sp), Plus(W), Star(Sp), Lit(<<"(">>),
     Star(NotIn({")"})), Lit(<<")">>), Star(Sp),
     Alt(<<Lit(<<"p", "u", "b", "l", "i", "c">>), Lit(<<"e", "x", "t", "e", "r", "n", "a", "l">>)>>), Star(NotIn({"}"})),
     WordBoundary, Alt(<<Lit(<<"o", "w", "n", "e", "r">>), Lit(<<"a", "d", "m", "i", "n">>)>>), Star(Sp), Lit(<<"=">>)>>)],
  [name |-> "Uninitialized Storage Pointer", category |-> "security", severity |-> "high",
   description |-> "Uninitialized storage pointers can overwrite storage",
   recommendation |-> "Initialize storage pointers or use memory",
   pattern |-> Cat(<<WordBoundary, Lit(<<"s", "t", "r", "u", "c", "t">>), Plus(Sp), Plus(W), Plus(Sp),
     Lit(<<"s", "t", "o", "r", "a", "g", "e">>), Plus(Sp), Plus(W), Star(Sp), Lit(<<";">>)>>)]
>>

GAS_PATTERNS == <<
  [title |-> "Use immutable for constants set in constructor",
   description |-> "Variables set once in constructor can be immutable",
   savings |-> "~2100 gas per read",
   pattern |-> Cat(<<Lit(<<"p", "u", "b", "l", "i", "c">>), Plus(Sp), Group(1, Plus(W)), Plus(Sp),
     Group(2, Plus(W)), Star(Sp), Lit(<<";">>),
     Ahead(Cat(<<Star(NotIn({"}"})), Lit(<<"c", "o", "n", "s", "t", "r", "u", "c", "t", "o", "r">>), Star(NotIn({"}"})),
       BackRef(2), Star(Sp), Lit(<<"=">>)>>))>>)],
  [title |-> "Cache array length in loops",
   description |-> "Reading array.length in each iteration costs extra gas",
   savings |-> "~100 gas per iteration",
   pattern |-> Cat(<<Lit(<<"f", "o", "r">>), Star(Sp), Lit(<<"(">>), Star(NotIn({";"})), Lit(<<";">>),
     Star(Sp), Plus(W), Star(Sp), Lit(<<"<">>), Star(Sp), Plus(W), Lit(<<".", "l", "e", "n", "g", "t", "h">>),
     Star(Sp), Lit(<<";">>)>>)],
  [title |-> "Use ++i instead of i++",
   description |-> "Pre-increment is cheaper than post-increment",
   savings |-> "~5 gas per operation",
   pattern |-> Alt(<<
     Cat(<<Plus(W), Lit(<<"+", "+">>), NotAhead(Cat(<<Star(Sp), Lit(<<")">>)>>))>>),
     Cat(<<NotBehind({"("}), Lit(<<"+", "+">>), Plus(W)>>)>>)],
  [title |-> "Use calldata for external function arrays",
   description |-> "calldata is cheaper than memory for read-only arrays",
   savings |-> "~600 gas per call",
   pattern |-> Cat(<<Lit(<<"f", "u", "n", "c", "t", "i", "o", "n">>), Plus(Sp), Plus(W), Star(Sp), Lit(<<"(">>),
     Star(NotIn({")"})), Lit(<<"[", "]">>), Plus(Sp), Lit(<<"m", "e", "m", "o", "r", "y">>)>>)],
  [title |-> "Pack struct variables",
   description |-> "Group smaller types together to use fewer storage slots",
   savings |-> "~20000 gas per slot saved",
   pattern |-> Cat(<<Lit(<<"s", "t", "r", "u", "c", "t">>), Plus(Sp), Plus(W), Star(Sp), Lit(<<"{">>),
     Star(NotIn({"}"})), Lit(<<"u", "i", "n", "t", "2", "5", "6">>), Star(NotIn({"}"})), Lit(<<"u", "i", "n", "t", "8">>),
     Star(NotIn({"}"})), Lit(<<"u", "i", "n", "t", "2", "5", "6">>)>>)],
  [title |-> "Use custom errors instead of strings",
   description |-> "Custom errors are cheaper than string messages",
   savings |-> "~50 gas per error",
   pattern |-> Cat(<<Lit(<<"r", "e", "q", "u", "i", "r", "e">>), Star(Sp), Lit(<<"(">>), Plus(NotIn({","})),
     Lit(<<",">>), Star(Sp), Lit(<<"\"">>), Plus(NotIn({"\""})), Lit(<<"\"", ")">>)>>)],
  [title |-> "Avoid zero to non-zero storage writes",
   description |-> "Setting storage from 0 to non-zero is expensive",
   savings |-> "~20000 gas difference",
   pattern |-> Cat(<<Group(1, Plus(W)), Star(Sp), Lit(<<"=">>), Star(Sp), Lit(<<"0">>),
     Star(Sp), Lit(<<";">>), Star(NotIn({"}"})), BackRef(1), Star(Sp), Lit(<<"=">>)>>)],
  [title |-> "Use unchecked for safe arithmetic",
   description |-> "Loop counters rarely overflow, can use unchecked",
   savings |-> "~30 gas per operation",
   pattern |-> Cat(<<Lit(<<"f", "o", "r">>), Star(Sp), Lit(<<"(">>), Star(NotIn({")"})), Lit(<<")">>),
     Star(Sp), Lit(<<"{">>),
     NotAhead(Cat(<<Star(NotIn({"}"})), Lit(<<"u", "n", "c", "h", "e", "c", "k", "e", "d">>)>>))>>)]
>>

(***************************************************************************)
(* The files an invocation can name.  readFileSync(file, 'utf-8') returns  *)
(* the text of a readable file and throws for the others.                  *)
(***************************************************************************)
FileSystem ==
  ("Vault.sol" :> [readable |-> TRUE,
                   content |-> <<" ", " ", "n", "o", "w", ";", "\n", "s", "u", "i", "c", "i", "d", "e", "\n", "(", "n", "o", "w", ")", ";", " ", "x", "+", "+", ";">>]) @@
  ("Token.sol" :> [readable |-> TRUE,
                   content |-> <<"p", "r", "a", "g", "m", "a", " ", "s", "o", "l", "i", "d", "i", "t", "y", " ", "^", "0", ".", "4", ".", "0", ";", "\n", "c", "o", "n", "t", "r", "a", "c", "t", " ", "C", " ", "{", "}">>]) @@
  ("Loop.sol" :> [readable |-> TRUE,
                  content |-> <<"f", "o", "r", " ", "(", "u", "i", "n", "t", " ", "i", " ", "=", " ", "0", ";", " ", "i", " ", "<", " ", "a", "r", "r", ".", "l", "e", "n", "g", "t", "h", ";", " ", "i", "+", "+", ")", " ", "{", "}">>]) @@
  ("Clean.sol" :> [readable |-> TRUE, content |-> <<"c", "o", "n", "t", "r", "a", "c", "t", " ", "C", " ", "{", "}">>]) @@
  ("Missing.sol" :> [readable |-> FALSE, content |-> <<>>])

Paths == DOMAIN FileSystem

Readable == {p \in Paths : FileSystem[p].readable}

Content(file) == FileSystem[file].content

(***************************************************************************)
(* exec of matcher k of a catalog on the text of a file.  Every scan of    *)
(* the model is a scan of a file's text, so the results are tabulated per  *)
(* file, catalog entry and starting offset.                                *)
(***************************************************************************)
Catalog(list) == IF list = "vuln" THEN VULNERABILITY_PATTERNS ELSE GAS_PATTERNS

ExecTable ==
  [p \in Readable |->
    [list \in {"vuln", "gas"} |->
      [k \in 1..Len(Catalog(list)) |->
        [from \in 0..Len(Content(p)) |->
          SearchFrom(Catalog(list)[k].pattern, Content(p), from)]]]]

\* mutant of RegExpExec: a match leaves the cursor at the start of the
\* match, as a matcher of the empty string would
RegExpExecEmptyMatch(list, k, file, lastIndex) ==
  IF lastIndex > Len(Content(file)) THEN NoMatch
  ELSE LET m == ExecTable[file][list][k][lastIndex]
       IN [found |-> m.found, index |-> m.index,
           lastIndex |-> IF m.found THEN m.index ELSE 0]

RegExpExec(list, k, file, lastIndex) ==
  IF lastIndex > Len(Content(file)) THEN NoMatch
  ELSE ExecTable[file][list][k][lastIndex]

(***************************************************************************)
(* String helpers of the scan: split('\n'), trim(), substring.             *)
(***************************************************************************)
SubString(s, a, b) == IF a >= b THEN <<>> ELSE SubSeq(s, a + 1, b)

\* s.split('\n')
RECURSIVE SplitAt(_, _, _)
SplitAt(s, from, k) ==
  IF k >= Len(s) THEN <<SubString(s, from, Len(s))>>
  ELSE IF s[k + 1] = "\n" THEN <<SubString(s, from, k)>> \o SplitAt(s, k + 1, k + 1)
  ELSE SplitAt(s, from, k + 1)

Split(s) == SplitAt(s, 0, 0)

\* String.prototype.trim
RECURSIVE TrimStart(_)
TrimStart(s) == IF s # <<>> /\ Head(s) \in WhiteSpace THEN TrimStart(Tail(s)) ELSE s

RECURSIVE TrimEnd(_)
TrimEnd(s) ==
  IF s # <<>> /\ s[Len(s)] \in WhiteSpace THEN TrimEnd(SubSeq(s, 1, Len(s) - 1)) ELSE s

Trim(s) == TrimEnd(TrimStart(s))

\* mutant of LineNum: the count of line breaks, without the + 1
LineNumZeroBased(content, index) == Len(Split(SubString(content, 0, index))) - 1

\* content.substring(0, match.index).split('\n').length
LineNum(content, index) == Len(Split(SubString(content, 0, index)))

\* mutant of LineContent: the line is not trimmed
LineContentUntrimmed(lines, lineNum) ==
  IF lineNum >= 1 /\ lineNum <= Len(lines) THEN lines[lineNum] ELSE <<>>

\* lines[lineNum - 1]?.trim() || ''
LineContent(lines, lineNum) ==
  IF lineNum >= 1 /\ lineNum <= Len(lines) THEN Trim(lines[lineNum]) ELSE <<>>

(***************************************************************************)
(* analyzeContract(content, file) with content the text of file.           *)
(***************************************************************************)
\* the while loop of one vulnerability pattern, on a RegExp constructed
\* for this scan
RECURSIVE MatchLoop(_, _, _, _)
MatchLoop(k, file, lines, lastIndex) ==
  LET pattern == VULNERABILITY_PATTERNS[k]
      match == RegExpExec("vuln", k, file, lastIndex)
  IN IF ~match.found THEN <<>>
     ELSE LET lineNum == LineNum(Content(file), match.index) IN
          <<[file |-> file, line |-> lineNum, severity |-> pattern.severity,
             category |-> pattern.category, title |-> pattern.name,
             description |-> pattern.description,
             recommendation |-> pattern.recommendation,
             code |-> LineContent(lines, lineNum)]>>
            \o MatchLoop(k, file, lines, match.lastIndex)

\* mutant of Skipped: the flag is read the wrong way round
SkippedInverted(pattern, opts) ==
  pattern.category = "best-practice" /\ opts.includeBestPractices

Skipped(pattern, opts) ==
  pattern.category = "best-practice" /\ ~opts.includeBestPractices

RECURSIVE ScanVulnerabilities(_, _, _, _)
ScanVulnerabilities(k, file, lines, opts) ==
  IF k > Len(VULNERABILITY_PATTERNS) THEN <<>>
  ELSE (IF Skipped(VULNERABILITY_PATTERNS[k], opts) THEN <<>>
        ELSE MatchLoop(k, file, lines, 0))
         \o ScanVulnerabilities(k + 1, file, lines, opts)

\* pattern.pattern.test(content) on the catalog's own RegExp object, whose
\* lastIndex is li[k] before the call
GasTest(k, file, li) == RegExpExec("gas", k, file, li[k])

RECURSIVE GasFindings(_, _, _)
GasFindings(k, file, li) ==
  IF k > Len(GAS_PATTERNS) THEN <<>>
  ELSE (IF GasTest(k, file, li).found
        THEN <<[title |-> GAS_PATTERNS[k].title,
                description |-> GAS_PATTERNS[k].description,
                savings |-> GAS_PATTERNS[k].savings]>>
        ELSE <<>>)
         \o GasFindings(k + 1, file, li)

\* analyzeGas(content): the findings, and the lastIndex it leaves on the
\* gas catalog's matchers
analyzeGas(file, li) ==
  [findings |-> GasFindings(1, file, li),
   lastIndex |-> [k \in 1..Len(GAS_PATTERNS) |-> GasTest(k, file, li).lastIndex]]

\* mutant of GasIssue: another severity
GasIssueMedium(g, file) ==
  [file |-> file, line |-> 0, severity |-> "medium", category |-> "gas",
   title |-> g.title, description |-> g.description,
   recommendation |-> <<"Potential savings: ", g.savings>>]

GasIssue(g, file) ==
  [file |-> file, line |-> 0, severity |-> "low", category |-> "gas",
   title |-> g.title, description |-> g.description,
   recommendation |-> <<"Potential savings: ", g.savings>>]

\* mutant of analyzeContract: the gas analysis runs whatever includeGas is
analyzeContractAlwaysGas(file, opts, li) ==
  LET lines == Split(Content(file))
      vuln == ScanVulnerabilities(1, file, lines, opts)
      gas == analyzeGas(file, li)
  IN [issues |-> vuln \o [j \in 1..Len(gas.findings) |->
                            GasIssue(gas.findings[j], file)],
      lastIndex |-> gas.lastIndex]

\* mutant of analyzeContract: the gas findings are put first
analyzeContractGasFirst(file, opts, li) ==
  LET lines == Split(Content(file))
      vuln == ScanVulnerabilities(1, file, lines, opts)
      gas == analyzeGas(file, li)
  IN IF opts.includeGas
     THEN [issues |-> [j \in 1..Len(gas.findings) |->
                         GasIssue(gas.findings[j], file)] \o vuln,
           lastIndex |-> gas.lastIndex]
     ELSE [issues |-> vuln, lastIndex |-> li]

analyzeContract(file, opts, li) ==
  LET lines == Split(Content(file))
      vuln == ScanVulnerabilities(1, file, lines, opts)
      gas == analyzeGas(file, li)
  IN IF opts.includeGas
     THEN [issues |-> vuln \o [j \in 1..Len(gas.findings) |->
                                 GasIssue(gas.findings[j], file)],
           lastIndex |-> gas.lastIndex]
     ELSE [issues |-> vuln, lastIndex |-> li]

(***************************************************************************)
(* auditFiles: the severity filter and the summary.                        *)
(***************************************************************************)
severityOrder == <<"low", "medium", "high", "critical">>

\* mutant of IndexOf: an absent element ranks after the last one
IndexOfOrLength(seq, x) ==
  IF \E i \in 1..Len(seq) : seq[i] = x
  THEN (CHOOSE i \in 1..Len(seq) : seq[i] = x /\ \A j \in 1..(i - 1) : seq[j] # x) - 1
  ELSE Len(seq)

\* Array.prototype.indexOf
IndexOf(seq, x) ==
  IF \E i \in 1..Len(seq) : seq[i] = x
  THEN (CHOOSE i \in 1..Len(seq) : seq[i] = x /\ \A j \in 1..(i - 1) : seq[j] # x) - 1
  ELSE -1

\* this.options.minSeverity || 'low'
MinSeverity(opts) == IF opts.minSeverity = <<>> THEN "low" ELSE opts.minSeverity[1]

\* mutant of Filter: > for >=
FilterStrict(all, opts) ==
  LET minIdx == IndexOf(severityOrder, MinSeverity(opts))
  IN SelectSeq(all, LAMBDA i : IndexOf(severityOrder, i.severity) > minIdx)

Filter(all, opts) ==
  LET minIdx == IndexOf(severityOrder, MinSeverity(opts))
  IN SelectSeq(all, LAMBDA i : IndexOf(severityOrder, i.severity) >= minIdx)

\* mutant of CountSeverity: gas findings are left to the gas counter
CountSeverityNoGas(filtered, sev) ==
  Len(SelectSeq(filtered, LAMBDA i : i.severity = sev /\ i.category # "gas"))

CountSeverity(filtered, sev) == Len(SelectSeq(filtered, LAMBDA i : i.severity = sev))

CountCategory(filtered, cat) == Len(SelectSeq(filtered, LAMBDA i : i.category = cat))

AuditResult(fl, all, opts) ==
  LET filtered == Filter(all, opts)
  IN [files |-> fl, issues |-> filtered,
      summary |-> [critical |-> CountSeverity(filtered, "critical"),
                   high |-> CountSeverity(filtered, "high"),
                   medium |-> CountSeverity(filtered, "medium"),
                   low |-> CountSeverity(filtered, "low"),
                   gas |-> CountCategory(filtered, "gas")]]

(***************************************************************************)
(* The state: one SolidityAuditor in one process, and the caller of its    *)
(* entry points (the audit command of cli.ts, or a program that uses the   *)
(* exported class directly).                                               *)
(***************************************************************************)
VARIABLES
  options,     \* this.options, set by the constructor
  lastIndex,   \* lastIndex of the catalogs' RegExp objects: [vuln, gas]
  pc,          \* "idle", "auditing", "returned", "threw", "rendered",
               \* "reported", "exited"
  call,        \* the entry point called: "none", "auditFiles",
               \* "analyzeContract", "analyzeGas"
  files,       \* the files argument (for a direct scan, the file scanned)
  idx,         \* auditFiles: the number of files read so far
  allIssues,   \* auditFiles: allIssues
  startIndex,  \* history: lastIndex.gas when the call began
  returned,    \* <<value>> once the call has returned, else <<>>
  error, \* <<error>> once the call has thrown, else <<>>
  report, \* <<report>> once the audit command has printed it
  saved,       \* <<report>> once the audit command has written it to --save
  exitCode     \* <<status>> once the process has ended

vars == <<options, lastIndex, pc, call, files, idx, allIssues, startIndex,
          returned, error, report, saved, exitCode>>

\* the longest file list of an invocation
MaxFiles == 2

FileLists == UNION {[1..n -> Paths] : n \in 0..MaxFiles}

\* -s <level> is forwarded unvalidated; "urgent" stands for the strings
\* that name no severity
Options ==
  [minSeverity : {<<>>, <<"low">>, <<"medium">>, <<"high">>, <<"critical">>, <<"urgent">>},
   includeGas : BOOLEAN,
   includeBestPractices : BOOLEAN]

ZeroIndex(list) == [k \in 1..Len(Catalog(list)) |-> 0]

Init ==
  /\ options \in Options
  /\ lastIndex = [vuln |-> ZeroIndex("vuln"), gas |-> ZeroIndex("gas")]
  /\ pc = "idle"
  /\ call = "none"
  /\ files = <<>>
  /\ idx = 0
  /\ allIssues = <<>>
  /\ startIndex = ZeroIndex("gas")
  /\ returned = <<>>
  /\ error = <<>>
  /\ report = <<>>
  /\ saved = <<>>
  /\ exitCode = <<>>

\* auditFiles(files) is called
AuditFiles(fl) ==
  /\ pc = "idle"
  /\ pc' = "auditing"
  /\ call' = "auditFiles"
  /\ files' = fl
  /\ idx' = 0
  /\ allIssues' = <<>>
  /\ startIndex' = lastIndex.gas
  /\ UNCHANGED <<options, lastIndex, returned, error, report, saved, exitCode>>

\* mutant of ReadAndScan: the file's findings are put in front
ReadAndScanPrepend ==
  /\ pc = "auditing"
  /\ idx < Len(files)
  /\ FileSystem[files[idx + 1]].readable
  /\ LET issues == analyzeContract(files[idx + 1], options, lastIndex.gas)
     IN /\ allIssues' = issues.issues \o allIssues
        /\ lastIndex' = [lastIndex EXCEPT !.gas = issues.lastIndex]
  /\ idx' = idx + 1
  /\ UNCHANGED <<options, pc, call, files, startIndex, returned, error, report, saved,
                 exitCode>>

\* one iteration of the loop over files: read, scan, append
ReadAndScan ==
  /\ pc = "auditing"
  /\ idx < Len(files)
  /\ FileSystem[files[idx + 1]].readable
  /\ LET issues == analyzeContract(files[idx + 1], options, lastIndex.gas)
     IN /\ allIssues' = allIssues \o issues.issues
        /\ lastIndex' = [lastIndex EXCEPT !.gas = issues.lastIndex]
  /\ idx' = idx + 1
  /\ UNCHANGED <<options, pc, call, files, startIndex, returned, error, report, saved,
                 exitCode>>

\* mutant of ReadError: the unreadable file is skipped
ReadErrorSkip ==
  /\ pc = "auditing"
  /\ idx < Len(files)
  /\ ~FileSystem[files[idx + 1]].readable
  /\ idx' = idx + 1
  /\ UNCHANGED <<options, lastIndex, pc, call, files, allIssues, startIndex, returned,
                 error, report, saved, exitCode>>

\* readFileSync throws; nothing in auditFiles catches it
ReadError ==
  /\ pc = "auditing"
  /\ idx < Len(files)
  /\ ~FileSystem[files[idx + 1]].readable
  /\ pc' = "threw"
  /\ error' = <<[code |-> "ENOENT", path |-> files[idx + 1]]>>
  /\ UNCHANGED <<options, lastIndex, call, files, idx, allIssues, startIndex, returned,
                 report, saved, exitCode>>

\* after the loop: filter by severity, count, return
FilterAndReturn ==
  /\ pc = "auditing"
  /\ idx = Len(files)
  /\ returned' = <<AuditResult(files, allIssues, options)>>
  /\ pc' = "returned"
  /\ UNCHANGED <<options, lastIndex, call, files, idx, allIssues, startIndex, error,
                 report, saved, exitCode>>

\* analyzeContract(content, file) is called directly
AnalyzeContractCall(file) ==
  /\ pc = "idle"
  /\ FileSystem[file].readable
  /\ LET issues == analyzeContract(file, options, lastIndex.gas)
     IN /\ returned' = <<issues.issues>>
        /\ lastIndex' = [lastIndex EXCEPT !.gas = issues.lastIndex]
  /\ pc' = "returned"
  /\ call' = "analyzeContract"
  /\ files' = <<file>>
  /\ startIndex' = lastIndex.gas
  /\ UNCHANGED <<options, idx, allIssues, error, report, saved, exitCode>>

\* analyzeGas(content) is called directly
AnalyzeGasCall(file) ==
  /\ pc = "idle"
  /\ FileSystem[file].readable
  /\ LET analysis == analyzeGas(file, lastIndex.gas)
     IN /\ returned' = <<analysis.findings>>
        /\ lastIndex' = [lastIndex EXCEPT !.gas = analysis.lastIndex]
  /\ pc' = "returned"
  /\ call' = "analyzeGas"
  /\ files' = <<file>>
  /\ startIndex' = lastIndex.gas
  /\ UNCHANGED <<options, idx, allIssues, error, report, saved, exitCode>>

\* a caller of the class takes the result (or the exception) and goes on
\* to its next call
Continue ==
  /\ pc \in {"returned", "threw"}
  /\ pc' = "idle"
  /\ call' = "none"
  /\ files' = <<>>
  /\ idx' = 0
  /\ allIssues' = <<>>
  /\ returned' = <<>>
  /\ error' = <<>>
  /\ UNCHANGED <<options, lastIndex, startIndex, report, saved, exitCode>>

(***************************************************************************)
(* The audit command around auditFiles.                                    *)
(***************************************************************************)
\* reporter.generate(results) of the report sent to the console
Generate(results) == [files |-> results.files, issues |-> results.issues,
                      summary |-> results.summary]

\* fs.statSync(path) throws: the catch block ends the process with status 1
PathError ==
  /\ pc = "idle"
  /\ pc' = "exited"
  /\ exitCode' = <<1>>
  /\ UNCHANGED <<options, lastIndex, call, files, idx, allIssues, startIndex, returned,
                 error, report, saved>>

\* the path resolves to no file: 'No .sol files found', return
NoFilesFound ==
  /\ pc = "idle"
  /\ pc' = "exited"
  /\ exitCode' = <<0>>
  /\ UNCHANGED <<options, lastIndex, call, files, idx, allIssues, startIndex, returned,
                 error, report, saved>>

\* auditFiles returned to the command: the report is generated and printed
Render ==
  /\ pc = "returned"
  /\ call = "auditFiles"
  /\ files # <<>>
  /\ report' = <<Generate(returned[1])>>
  /\ pc' = "rendered"
  /\ UNCHANGED <<options, lastIndex, call, files, idx, allIssues, startIndex, returned,
                 error, saved, exitCode>>

\* if (opts.save) the report is written to the file
Save ==
  /\ pc = "rendered"
  /\ \E save \in BOOLEAN : saved' = IF save THEN report ELSE <<>>
  /\ pc' = "reported"
  /\ UNCHANGED <<options, lastIndex, call, files, idx, allIssues, startIndex, returned,
                 error, report, exitCode>>

\* mutant of Exit: a high finding fails the command too
ExitOnHigh ==
  /\ pc = "reported"
  /\ exitCode' = IF \E i \in 1..Len(returned[1].issues) :
                      returned[1].issues[i].severity \in {"critical", "high"}
                 THEN <<1>> ELSE <<0>>
  /\ pc' = "exited"
  /\ UNCHANGED <<options, lastIndex, call, files, idx, allIssues, startIndex, returned,
                 error, report, saved>>

\* process.exit(1) if some issue is critical, else the process ends
Exit ==
  /\ pc = "reported"
  /\ exitCode' = IF \E i \in 1..Len(returned[1].issues) :
                      returned[1].issues[i].severity = "critical"
                 THEN <<1>> ELSE <<0>>
  /\ pc' = "exited"
  /\ UNCHANGED <<options, lastIndex, call, files, idx, allIssues, startIndex, returned,
                 error, report, saved>>

\* the command's catch block: spinner.fail(err.message); process.exit(1)
CatchError ==
  /\ pc = "threw"
  /\ call = "auditFiles"
  /\ files # <<>>
  /\ pc' = "exited"
  /\ exitCode' = <<1>>
  /\ UNCHANGED <<options, lastIndex, call, files, idx, allIssues, startIndex, returned,
                 error, report, saved>>

Next ==
  \/ \E fl \in FileLists : AuditFiles(fl)
  \/ ReadAndScan
  \/ ReadError
  \/ FilterAndReturn
  \/ \E file \in Paths : AnalyzeContractCall(file)
  \/ \E file \in Paths : AnalyzeGasCall(file)
  \/ Continue
  \/ PathError
  \/ NoFilesFound
  \/ Render
  \/ Save
  \/ Exit
  \/ CatchError

Spec == Init /\ [][Next]_vars

(***************************************************************************)
(* Properties.  The reference notions below are written from the           *)
(* specification's wording, independently of the definitions above.        *)
(***************************************************************************)
\* a file scan can start in this state
ScanCanStart == pc = "idle" \/ (pc = "auditing" /\ idx < Len(files))

AllZero(li) == \A k \in 1..Len(li) : li[k] = 0

\* the scan of a file whose matchers all start at a zero cursor
FreshScan(file) == analyzeContract(file, options, ZeroIndex("gas")).issues

\* C1: matcher state is scoped to one file scan: whenever the next file
\* scan starts, the scan cursor of every catalog matcher (vulnerability
\* and gas) is zero, so a scan returns what a scan with fresh matchers
\* returns, whatever was scanned before.
C1_MatcherStateScopedToScan ==
  /\ ScanCanStart => AllZero(lastIndex.vuln) /\ AllZero(lastIndex.gas)
  /\ (pc = "returned" /\ call = "analyzeContract") => returned[1] = FreshScan(files[1])

\* gas pattern k occurs somewhere in the text of file
OccursIn ==
  [file \in Readable |->
    [k \in 1..Len(GAS_PATTERNS) |->
      \E i \in 0..Len(Content(file)) :
        Match(GAS_PATTERNS[k].pattern, Content(file), i, NoCaptures) # <<>>]]

Occurs(k, file) == OccursIn[file][k]

Titles(findings) == [j \in 1..Len(findings) |-> findings[j].title]

\* the titles of the gas patterns that occur in file, in catalog order
RECURSIVE OccurringTitles(_, _)
OccurringTitles(k, file) ==
  IF k > Len(GAS_PATTERNS) THEN <<>>
  ELSE (IF Occurs(k, file) THEN <<GAS_PATTERNS[k].title>> ELSE <<>>)
         \o OccurringTitles(k + 1, file)

Contains(s, sub) == \E i \in 0..(Len(s) - Len(sub)) : LitAt(sub, s, i)

Scenario5 == <<"f", "o", "r", " ", "(", "u", "i", "n", "t", " ", "i", " ", "=", " ", "0", ";", " ", "i", " ", "<", " ", "a", "r", "r", ".", "l", "e", "n", "g", "t", "h", ";", " ", "i", "+", "+", ")">>

\* C2: analyzeGas emits one finding for each gas pattern that occurs in
\* the content and for no other, in gas-catalog order; a scan with gas
\* analysis of a content containing the loop of scenario 5 yields a
\* 'Cache array length in loops' finding of category gas, severity low.
C2_GasFindingIffPatternOccurs ==
  /\ (pc = "returned" /\ call = "analyzeGas") =>
        Titles(returned[1]) = OccurringTitles(1, files[1])
  /\ (pc = "returned" /\ call = "analyzeContract" /\ options.includeGas
        /\ Contains(Content(files[1]), Scenario5)) =>
        \E j \in 1..Len(returned[1]) :
          /\ returned[1][j].title = "Cache array length in loops"
          /\ returned[1][j].category = "gas"
          /\ returned[1][j].severity = "low"

\* the rank of a severity: low < medium < high < critical; a string that
\* names no severity ranks below low
Rank(sev) ==
  CASE sev = "low" -> 0
    [] sev = "medium" -> 1
    [] sev = "high" -> 2
    [] sev = "critical" -> 3
    [] OTHER -> -1

\* the rank of the configured minimum severity (default low)
MinRank == IF options.minSeverity = <<>> THEN Rank("low") ELSE Rank(options.minSeverity[1])

NamesSeverity == options.minSeverity = <<>> \/ Rank(options.minSeverity[1]) >= 0

RECURSIVE SeverityFiltered(_)
SeverityFiltered(seq) ==
  IF seq = <<>> THEN <<>>
  ELSE (IF Rank(Head(seq).severity) >= MinRank THEN <<Head(seq)>> ELSE <<>>)
         \o SeverityFiltered(Tail(seq))

\* analyzeContract on fl[k], fl[k+1], ... one after the other, the first
\* with the gas matchers as li leaves them
RECURSIVE InOrder(_, _, _)
InOrder(fl, k, li) ==
  IF k > Len(fl) THEN <<>>
  ELSE LET r == analyzeContract(fl[k], options, li)
       IN r.issues \o InOrder(fl, k + 1, r.lastIndex)

AuditReturned == pc = "returned" /\ call = "auditFiles"

Has(seq, P(_)) == \E j \in 1..Len(seq) : P(seq[j])

\* C3: auditFiles is order-preserving: issues is the severity-filtered
\* concatenation of the results of analyzeContract on file 1, file 2, ...
\* in the caller's order.
C3_AuditFilesOrderPreserving ==
  AuditReturned =>
    /\ returned[1].issues = SeverityFiltered(InOrder(files, 1, startIndex))
    /\ returned[1].files = files

\* two different files, findings of both in issues, and a finding that
\* the filter dropped
C3_Witness ==
  /\ AuditReturned
  /\ Len(files) = 2
  /\ files[1] # files[2]
  /\ Has(returned[1].issues, LAMBDA i : i.file = files[1])
  /\ Has(returned[1].issues, LAMBDA i : i.file = files[2])
  /\ Len(returned[1].issues) < Len(allIssues)

UnreadableNamed ==
  call = "auditFiles" /\ \E k \in 1..Len(files) : ~FileSystem[files[k]].readable

\* C4: if a file of the list cannot be read the invocation fails as a
\* whole: the read error reaches the caller, no AuditResult is returned,
\* and the audit command prints and saves no report and exits non-zero.
C4_ReadErrorFailsWholeInvocation ==
  UnreadableNamed =>
    /\ returned = <<>>
    /\ report = <<>>
    /\ saved = <<>>
    /\ pc \in {"auditing", "threw", "exited"}
    /\ pc = "auditing" => \A k \in 1..idx : FileSystem[files[k]].readable
    /\ pc # "auditing" =>
          /\ error # <<>>
          /\ ~FileSystem[error[1].path].readable
          /\ error[1].path = files[idx + 1]
    /\ pc = "exited" => exitCode = <<1>>

\* the command has ended on a read error after files with findings were
\* read
C4_Witness ==
  /\ UnreadableNamed
  /\ pc = "exited"
  /\ idx >= 1
  /\ allIssues # <<>>

\* C5: the severity filter is exact: a finding the scans produced is in
\* issues iff its rank is at least the rank of the configured minimum;
\* with the minimum absent or low every finding is kept.
C5_SeverityFilterExact ==
  (AuditReturned /\ NamesSeverity) =>
    /\ \A i \in 1..Len(allIssues) :
          Has(returned[1].issues, LAMBDA x : x = allIssues[i])
            <=> Rank(allIssues[i].severity) >= MinRank
    /\ \A j \in 1..Len(returned[1].issues) :
          Has(allIssues, LAMBDA x : x = returned[1].issues[j])
    /\ MinRank = 0 => returned[1].issues = allIssues

\* minimum high: a high finding kept, a medium finding dropped
C5_Witness ==
  /\ AuditReturned
  /\ options.minSeverity = <<"high">>
  /\ Has(returned[1].issues, LAMBDA i : i.severity = "high")
  /\ Has(allIssues, LAMBDA i : i.severity = "medium")

\* C6: the four severity counters add up to the number of issues.
C6_SummaryAddsUp ==
  AuditReturned =>
    returned[1].summary.critical + returned[1].summary.high
      + returned[1].summary.medium + returned[1].summary.low
      = Len(returned[1].issues)

\* a result with critical, low and gas findings
C6_Witness ==
  /\ AuditReturned
  /\ returned[1].summary.critical > 0
  /\ returned[1].summary.low > 0
  /\ returned[1].summary.gas > 0

IsGas(i) == i.category = "gas"

\* the findings the scans of this call have produced
Produced ==
  IF call = "auditFiles" THEN allIssues
  ELSE IF call = "analyzeContract" /\ pc = "returned" THEN returned[1]
  ELSE <<>>

IsBestPractice(i) == i.category = "best-practice"

\* vulnerability pattern k occurs somewhere in the text of file
VulnerabilityOccursIn ==
  [file \in Readable |->
    [k \in 1..Len(VULNERABILITY_PATTERNS) |->
      \E i \in 0..Len(Content(file)) :
        Match(VULNERABILITY_PATTERNS[k].pattern, Content(file), i, NoCaptures) # <<>>]]

VulnerabilityOccurs(k, file) == VulnerabilityOccursIn[file][k]

\* C8: without includeBestPractices no best-practice finding is produced
\* or returned; the security patterns are scanned in every configuration.
C8_BestPracticeOnlyOnRequest ==
  /\ ~options.includeBestPractices =>
        /\ ~Has(Produced, IsBestPractice)
        /\ AuditReturned => ~Has(returned[1].issues, IsBestPractice)
  /\ (pc = "returned" /\ call = "analyzeContract") =>
        \A k \in 1..Len(VULNERABILITY_PATTERNS) :
          (VULNERABILITY_PATTERNS[k].category = "security"
             /\ VulnerabilityOccurs(k, files[1])) =>
            Has(returned[1], LAMBDA i : i.title = VULNERABILITY_PATTERNS[k].name)

\* a file with a best-practice signature and a security signature was
\* scanned without includeBestPractices
C8_Witness ==
  /\ pc = "returned"
  /\ call = "analyzeContract"
  /\ ~options.includeBestPractices
  /\ \E k \in 1..Len(VULNERABILITY_PATTERNS) :
        /\ VULNERABILITY_PATTERNS[k].category = "best-practice"
        /\ VulnerabilityOccurs(k, files[1])
  /\ returned[1] # <<>>

\* C9: without includeGas no gas finding is produced or returned,
\* summary.gas is 0, and a scan leaves the gas matchers untouched.
C9_NoGasStateInv ==
  ~options.includeGas =>
    /\ ~Has(Produced, IsGas)
    /\ AuditReturned =>
          /\ ~Has(returned[1].issues, IsGas)
          /\ returned[1].summary.gas = 0

C9_GasOnlyOnRequest ==
  /\ []C9_NoGasStateInv
  /\ [][(~options.includeGas /\ call' # "analyzeGas") => lastIndex' = lastIndex]_vars

\* a file with gas idioms was scanned without includeGas
C9_Witness ==
  /\ pc = "returned"
  /\ call = "analyzeContract"
  /\ ~options.includeGas
  /\ \E k \in 1..Len(GAS_PATTERNS) : Occurs(k, files[1])
  /\ AllZero(lastIndex.gas)

\* the number of line breaks among the first n characters of content
NewlinesBefore(content, n) == Cardinality({p \in 1..n : content[p] = "\n"})

NumberOfLines(content) == NewlinesBefore(content, Len(content)) + 1

\* the text of line n of content (1-based), without its line break
TextOfLine(content, n) ==
  LET ps == {p \in 1..Len(content) :
               content[p] # "\n" /\ NewlinesBefore(content, p) = n - 1}
  IN [q \in 1..Cardinality(ps) |->
        content[CHOOSE p \in ps : Cardinality({r \in ps : r < p}) = q - 1]]

\* text without its leading and trailing white space
Trimmed(text) ==
  LET ps == {p \in 1..Len(text) : text[p] \notin WhiteSpace}
  IN IF ps = {} THEN <<>>
     ELSE SubSeq(text, CHOOSE p \in ps : \A r \in ps : p <= r,
                       CHOOSE p \in ps : \A r \in ps : r <= p)

\* some substring of text satisfies the matcher
SatisfiedIn(pattern, text) ==
  \E i \in 0..Len(text) : Match(pattern, text, i, NoCaptures) # <<>>

\* the position in its catalog of the entry a finding's title names
VulnerabilityIndex(i) ==
  CHOOSE k \in 1..Len(VULNERABILITY_PATTERNS) : VULNERABILITY_PATTERNS[k].name = i.title

GasIndex(i) == CHOOSE k \in 1..Len(GAS_PATTERNS) : GAS_PATTERNS[k].title = i.title

\* the matches of a matcher in content that the match loop visits:
\* leftmost first, each search starting where the previous match ended
RECURSIVE LoopMatches(_, _, _)
LoopMatches(pattern, content, from) ==
  LET m == SearchFrom(pattern, content, from)
  IN IF ~m.found THEN {}
     ELSE {[index |-> m.index, lastIndex |-> m.lastIndex]}
            \cup LoopMatches(pattern, content, m.lastIndex)

\* the matches of each vulnerability pattern in each readable file
MatchesIn ==
  [file \in Readable |->
    [k \in 1..Len(VULNERABILITY_PATTERNS) |->
      LoopMatches(VULNERABILITY_PATTERNS[k].pattern, Content(file), 0)]]

\* whether the trimmed text of each line of each readable file contains a
\* substring that satisfies each vulnerability pattern's matcher
LineSatisfies ==
  [file \in Readable |->
    [k \in 1..Len(VULNERABILITY_PATTERNS) |->
      [n \in 1..NumberOfLines(Content(file)) |->
        SatisfiedIn(VULNERABILITY_PATTERNS[k].pattern,
                    Trimmed(TextOfLine(Content(file), n)))]]]

OnOneLine(content, m) ==
  NewlinesBefore(content, m.lastIndex) = NewlinesBefore(content, m.index)

LineInFile(i) == i.line \in 1..NumberOfLines(Content(i.file))

LineSatisfiesMatcher(i) == LineSatisfies[i.file][VulnerabilityIndex(i)][i.line]

\* C10 as stated: every finding the scan emits, gas findings included,
\* has a line within [1, number of lines of the file], and the trimmed
\* text of that line contains a substring that satisfies the pattern's
\* matcher.
C10_EveryFindingOnAMatchingLine ==
  \A j \in 1..Len(Produced) :
    LineInFile(Produced[j]) /\ LineSatisfiesMatcher(Produced[j])

\* C10 amended: every finding of a vulnerability pattern has a line within
\* [1, number of lines of the file] on which a match of the pattern
\* starts, and if that match ends on the same line the trimmed text of the
\* line contains a substring that satisfies the matcher; a gas finding
\* has line 0.
C10_VulnerabilityFindingOnMatchLine ==
  \A j \in 1..Len(Produced) :
    LET i == Produced[j]
        content == Content(i.file)
    IN IF IsGas(i) THEN i.line = 0
       ELSE /\ LineInFile(i)
            /\ \E m \in MatchesIn[i.file][VulnerabilityIndex(i)] :
                  /\ NewlinesBefore(content, m.index) + 1 = i.line
                  /\ OnOneLine(content, m) => LineSatisfiesMatcher(i)

\* a scan has produced a gas finding, a finding whose match runs over a
\* line break, and a finding whose match lies on a line after the first
C10_Witness ==
  /\ Has(Produced, IsGas)
  /\ Has(Produced, LAMBDA i : ~IsGas(i) /\ ~LineSatisfiesMatcher(i))
  /\ Has(Produced, LAMBDA i : ~IsGas(i) /\ i.line > 1 /\ LineSatisfiesMatcher(i))

\* the result of a direct analyzeContract call is available
ContractScanned == pc = "returned" /\ call = "analyzeContract"

\* the findings of issues whose title is the name of vulnerability pattern k
FindingsOf(issues, k) ==
  SelectSeq(issues, LAMBDA i : ~IsGas(i) /\ i.title = VULNERABILITY_PATTERNS[k].name)

\* the n-th match of a set of matches, leftmost first
NthMatch(ms, n) == CHOOSE m \in ms : Cardinality({x \in ms : x.index < m.index}) = n - 1

\* the matches are non-empty and no two of them overlap
NonOverlapping(ms) ==
  /\ \A m \in ms : m.index < m.lastIndex
  /\ \A m1, m2 \in ms : m1 # m2 => m1.lastIndex <= m2.index \/ m2.lastIndex <= m1.index

\* C11: the findings analyzeContract returns for one file are ordered:
\* vulnerability findings before gas findings; vulnerability findings in
\* catalog order; the findings of one pattern in left-to-right occurrence
\* order, one per match, the matches having strictly increasing,
\* non-overlapping offsets and so non-decreasing lines; gas findings in
\* gas-catalog order.
C11_FindingsOrdered ==
  ContractScanned =>
    LET r == returned[1]
        content == Content(files[1])
    IN /\ \A a, b \in 1..Len(r) : a < b =>
            /\ ~(IsGas(r[a]) /\ ~IsGas(r[b]))
            /\ (~IsGas(r[a]) /\ ~IsGas(r[b])) =>
                  VulnerabilityIndex(r[a]) <= VulnerabilityIndex(r[b])
            /\ (~IsGas(r[a]) /\ ~IsGas(r[b]) /\ r[a].title = r[b].title) =>
                  r[a].line <= r[b].line
            /\ (IsGas(r[a]) /\ IsGas(r[b])) => GasIndex(r[a]) < GasIndex(r[b])
       /\ \A k \in 1..Len(VULNERABILITY_PATTERNS) :
            LET ms == MatchesIn[files[1]][k]
                fs == FindingsOf(r, k)
            IN /\ NonOverlapping(ms)
               /\ Len(fs) \in {0, Cardinality(ms)}
               /\ \A n \in 1..Len(fs) :
                    fs[n].line = NewlinesBefore(content, NthMatch(ms, n).index) + 1

\* a scan has returned findings of two vulnerability patterns, two findings
\* of one pattern on different lines, a later pattern's finding on an
\* earlier line, and a gas finding
C11_Witness ==
  /\ ContractScanned
  /\ Has(returned[1], IsGas)
  /\ \E a, b \in 1..Len(returned[1]) :
       /\ a < b
       /\ ~IsGas(returned[1][a]) /\ ~IsGas(returned[1][b])
       /\ returned[1][a].title # returned[1][b].title
       /\ returned[1][b].line < returned[1][a].line
  /\ \E a, b \in 1..Len(returned[1]) :
       /\ a < b
       /\ ~IsGas(returned[1][a])
       /\ returned[1][a].title = returned[1][b].title
       /\ returned[1][a].line < returned[1][b].line

\* every search of a vulnerability matcher in a readable file, from every
\* cursor position, either fails or finds a non-empty match at or after
\* the cursor and leaves the cursor at the end of the match
ExecAdvances ==
  \A file \in Readable : \A k \in 1..Len(VULNERABILITY_PATTERNS) :
    \A from \in 0..Len(Content(file)) :
      LET m == RegExpExec("vuln", k, file, from)
      IN m.found => /\ from <= m.index
                    /\ m.index < m.lastIndex
                    /\ m.lastIndex <= Len(Content(file))

\* nothing has been scanned since the process started
NothingScanned == pc = "idle" /\ AllZero(lastIndex.gas) /\ AllZero(startIndex)

\* no pattern of either catalog occurs in the file
NothingOccurs(file) ==
  /\ \A k \in 1..Len(VULNERABILITY_PATTERNS) : ~VulnerabilityOccurs(k, file)
  /\ \A k \in 1..Len(GAS_PATTERNS) : ~Occurs(k, file)

\* C12: analyzeContract terminates on every content: the scan cursor of
\* each pattern strictly advances with every match (no matcher matches the
\* empty string), so a pattern's loop makes at most length(content)
\* matches; a content matching no pattern yields the empty sequence.
C12_AnalyzeContractTerminates ==
  /\ NothingScanned => ExecAdvances
  /\ ContractScanned =>
       /\ \A k \in 1..Len(VULNERABILITY_PATTERNS) :
            Len(FindingsOf(returned[1], k)) <= Len(Content(files[1]))
       /\ NothingOccurs(files[1]) => returned[1] = <<>>

\* a scan has ended after a pattern's loop went round more than once
C12_Witness ==
  /\ ContractScanned
  /\ \E k \in 1..Len(VULNERABILITY_PATTERNS) : Len(FindingsOf(returned[1], k)) >= 2
  /\ \E k \in 1..Len(VULNERABILITY_PATTERNS) :
       ~Skipped(VULNERABILITY_PATTERNS[k], options) /\ FindingsOf(returned[1], k) = <<>>

\* an auditFiles invocation has completed with a result
AuditCompleted == call = "auditFiles" /\ returned # <<>>

\* the caller's check: results.issues.some(i => i.severity === 'critical')
HasCritical(result) == \E j \in 1..Len(result.issues) : result.issues[j].severity = "critical"

\* some file of the list contains an occurrence of a critical pattern
CriticalOccurs(fl) ==
  \E n \in 1..Len(fl) : \E k \in 1..Len(VULNERABILITY_PATTERNS) :
    /\ Rank(VULNERABILITY_PATTERNS[k].severity) = 3
    /\ VulnerabilityOccurs(k, fl[n])

C14_LineAndCodeOfFinding ==
  ContractScanned =>
    LET r == returned[1]
        content == Content(files[1])
    IN /\ \A j \in 1..Len(r) :
            IF IsGas(r[j]) THEN r[j].line = 0 /\ "code" \notin DOMAIN r[j]
            ELSE "code" \in DOMAIN r[j]
       /\ \A k \in 1..Len(VULNERABILITY_PATTERNS) :
            LET ms == MatchesIn[files[1]][k]
                fs == FindingsOf(r, k)
            IN \A n \in 1..Len(fs) :
                 /\ n <= Cardinality(ms)
                 /\ fs[n].line = 1 + NewlinesBefore(content, NthMatch(ms, n).index)
                 /\ fs[n].code = Trimmed(TextOfLine(content, fs[n].line))

\* a scan has returned a gas finding, a vulnerability finding on a line
\* after the first, and one whose line has white space that its code lacks
C14_Witness ==
  /\ ContractScanned
  /\ Has(returned[1], IsGas)
  /\ Has(returned[1], LAMBDA i : ~IsGas(i) /\ i.line > 1)
  /\ Has(returned[1], LAMBDA i : /\ ~IsGas(i)
                                 /\ i.code # TextOfLine(Content(i.file), i.line)
                                 /\ i.code # <<>>)

\* the configured minimum severity is a string that names no severity
UnknownMinSeverity ==
  /\ options.minSeverity # <<>>
  /\ options.minSeverity[1] \notin {"low", "medium", "high", "critical"}

\* the number of issues of a sequence that satisfy P
Count(seq, P(_)) == Cardinality({j \in 1..Len(seq) : P(seq[j])})

\* C15: with a minimum severity that is none of low, medium, high,
\* critical, auditFiles raises no error and filters nothing: issues and
\* summary are those of a minimum severity of low on the same input.
C15_UnknownMinSeverityFiltersNothing ==
  (call = "auditFiles" /\ UnknownMinSeverity) =>
    /\ (error # <<>>) => ~FileSystem[error[1].path].readable
    /\ (pc = "auditing" /\ idx = Len(files)) => ENABLED FilterAndReturn
    /\ AuditCompleted =>
         /\ returned[1] = AuditResult(files, allIssues, [options EXCEPT !.minSeverity = <<"low">>])
         /\ returned[1].issues = allIssues
         /\ returned[1].summary =
              [critical |-> Count(allIssues, LAMBDA i : i.severity = "critical"),
               high |-> Count(allIssues, LAMBDA i : i.severity = "high"),
               medium |-> Count(allIssues, LAMBDA i : i.severity = "medium"),
               low |-> Count(allIssues, LAMBDA i : i.severity = "low"),
               gas |-> Count(allIssues, IsGas)]

\* an audit with an unrecognised minimum severity has returned findings of
\* low severity and of a higher severity
C15_Witness ==
  /\ AuditCompleted
  /\ UnknownMinSeverity
  /\ Has(returned[1].issues, LAMBDA i : i.severity = "low")
  /\ Has(returned[1].issues, LAMBDA i : i.severity # "low")

=============================================================================
